---- MODULE Spec2Model ----
(***************************************************************************)
(* Model of "Spotipy Generator.py": main() and the four stage functions    *)
(* authenticate_spotify, get_top_artists, get_recommendations and          *)
(* create_playlist, run against a provider (the Spotify Web API behind     *)
(* spotipy) whose every call either raises or returns a response body.     *)
(* The program is sequential; it is cut into steps at the provider calls,  *)
(* each of which is issued in one step and answered in a later one.        *)
(***************************************************************************)
EXTENDS Integers, Sequences, FiniteSets

\* ---------------------------------------------------------------- bounds
MaxItems == 2        \* longest item list a provider response carries
MaxLimit == 2        \* largest limit get_top_artists is called with

\* ------------------------------------------------------ program constants
TopArtistsLimit == 5
RecommendationsLimit == 25
TimeRange == "medium_term"
\* "Découvertes Python" followed by a robot emoji, in ASCII
PlaylistName == "Decouvertes Python (robot)"
PlaylistDescription == "Playlist generee par un script Python avec Spotipy."

\* ------------------------------------------------------------ value sets
Missing == "<missing>"          \* a key that a response body lacks
None == "None"
Session == "sp"
Credentials == {"", "secret"}   \* what input()/getpass() can hand back
UserIds == {"u1"}
ArtistIds == {"A1", "A2"}
TrackIds == {"T1", "T2"}
PlaylistIds == {"P1", "P2"}     \* ids the provider can give a new playlist
Url == "https://open.spotify.com/playlist"

RECURSIVE SeqsUpTo(_, _)
SeqsUpTo(S, n) ==
    IF n = 0 THEN {<<>>}
    ELSE LET shorter == SeqsUpTo(S, n - 1)
         IN  shorter \cup {Append(s, x) : s \in {t \in shorter : Len(t) = n - 1}, x \in S}

\* response bodies of the provider
UserBodies == [id : UserIds \cup {Missing}, display_name : {"name", Missing}]
ArtistItems == [id : ArtistIds \cup {Missing}, name : {"name", Missing}]
TrackItems == [id : TrackIds \cup {Missing}]
PlaylistBodies == [id : PlaylistIds \cup {Missing}, url : {Url, Missing}]
NoPlaylist == [id |-> Missing, url |-> Missing]
\* a fetch's response body: has the key of its list or not, and the list
NoBody == [has |-> FALSE, items |-> <<>>]

VARIABLES
    pc,                     \* position of main() in the code
    client_id,              \* main: client_id
    client_secret,          \* main: client_secret
    sp,                     \* main: sp
    user_id,                \* main: user_id
    top_artist_ids,         \* main: top_artist_ids
    recommended_track_ids,  \* main: recommended_track_ids
    playlist,               \* create_playlist: playlist (the create response)
    out,                    \* what the run has printed, as message tags
    calls,                  \* provider operations issued so far, in order
    replies,                \* how the provider answered each of them, in order
    playlists,              \* the provider's playlists: id -> record
    limit,                  \* get_top_artists: limit
    results,                \* get_top_artists: results (the response body)
    recommendations         \* get_recommendations: recommendations (the body)

vars == <<pc, client_id, client_secret, sp, user_id, top_artist_ids,
          recommended_track_ids, playlist, out, calls, replies, playlists,
          limit, results, recommendations>>

Call(op, args) == [op |-> op, args |-> args]

Emit(tag) == out' = Append(out, tag)

\* the provider answers the outstanding call: it raised, or it returned a
\* body that has every key the code reads (ok) or lacks one (malformed)
Reply(result) == replies' = Append(replies, result)

\* the state main() starts in, but for the limit of the top-artists fetch
Start ==
    /\ pc = "input"
    /\ client_id = None
    /\ client_secret = None
    /\ sp = None
    /\ user_id = None
    /\ top_artist_ids = <<>>
    /\ recommended_track_ids = <<>>
    /\ playlist = NoPlaylist
    /\ out = <<>>
    /\ calls = <<>>
    /\ replies = <<>>
    /\ playlists = [p \in {} |-> NoPlaylist]
    /\ results = NoBody
    /\ recommendations = NoBody

\* main line 159 calls get_top_artists with limit=5
Init == Start /\ limit = TopArtistsLimit

\* ------------------------------------------------------------------ main
\* an input check that forgets the secret
EmptyCredentialsIdOnly(cid, secret) == cid = ""

\* "not client_id or not client_secret"
EmptyCredentials(cid, secret) == cid = "" \/ secret = ""

\* main, lines 132-141: read the credentials, reject empty ones
ReadCredentials ==
    /\ pc = "input"
    /\ \E cid \in Credentials, secret \in Credentials :
          /\ client_id' = cid
          /\ client_secret' = secret
          /\ IF EmptyCredentials(cid, secret)
               THEN /\ Emit("ERR_EMPTY_CREDENTIALS")
                    /\ pc' = "done"
               ELSE /\ UNCHANGED out
                    /\ pc' = "authenticate"
    /\ UNCHANGED <<replies, sp, user_id, top_artist_ids, recommended_track_ids,
                   playlist, calls, playlists>>
    /\ UNCHANGED <<limit, results, recommendations>>

\* a main that goes on without a client
NotSpNever(s) == FALSE

\* "if not sp: return"
NotSp(s) == s = None

\* authenticate_spotify as called by main, lines 144-146: the constructors
\* either yield a client or raise, and main returns when there is no client
Authenticate ==
    /\ pc = "authenticate"
    /\ \E raised \in BOOLEAN :
          LET s == IF raised THEN None ELSE Session
          IN  /\ sp' = s
              /\ Emit(IF raised THEN "ERR_AUTH" ELSE "AUTH_OK")
              /\ pc' = IF NotSp(s) THEN "done" ELSE "current_user"
    /\ UNCHANGED <<replies, client_id, client_secret, user_id, top_artist_ids,
                   recommended_track_ids, playlist, calls, playlists>>
    /\ UNCHANGED <<limit, results, recommendations>>

\* main, line 150: sp.current_user() is issued
CurrentUserCall ==
    /\ pc = "current_user"
    /\ calls' = Append(calls, Call("current_user", [session |-> sp]))
    /\ pc' = "current_user_wait"
    /\ UNCHANGED <<replies, client_id, client_secret, sp, user_id, top_artist_ids,
                   recommended_track_ids, playlist, out, playlists>>
    /\ UNCHANGED <<limit, results, recommendations>>

\* an except around the identification that asks the provider again
OnUserErrorRetry ==
    /\ Emit("ERR_USER")
    /\ pc' = "current_user"

\* an except around the identification that lacks its return
OnUserErrorNoReturn ==
    /\ Emit("ERR_USER")
    /\ pc' = "get_top_artists"

\* main, lines 153-155: the except around the identification
OnUserError ==
    /\ Emit("ERR_USER")
    /\ pc' = "done"

\* main, lines 150-155: sp.current_user() raises
CurrentUserRaise ==
    /\ pc = "current_user_wait"
    /\ OnUserError
    /\ Reply("raised")
    /\ UNCHANGED <<client_id, client_secret, sp, user_id, top_artist_ids,
                   recommended_track_ids, playlist, calls, playlists>>
    /\ UNCHANGED <<limit, results, recommendations>>

\* main, lines 150-155: sp.current_user() returns a body; user_info['id']
\* and user_info['display_name'] raise KeyError when the key is missing
CurrentUserReturn ==
    /\ pc = "current_user_wait"
    /\ \E body \in UserBodies :
          /\ user_id' = IF body.id = Missing THEN user_id ELSE body.id
          /\ IF body.id = Missing \/ body.display_name = Missing
               THEN /\ OnUserError
                    /\ Reply("malformed")
               ELSE /\ Emit("CONNECTED")
                    /\ pc' = "get_top_artists"
                    /\ Reply("ok")
    /\ UNCHANGED <<client_id, client_secret, sp, top_artist_ids,
                   recommended_track_ids, playlist, calls, playlists>>
    /\ UNCHANGED <<limit, results, recommendations>>

\* ------------------------------------------------------- get_top_artists
\* [x['id'] for x in items]
Ids(items) == [i \in 1..Len(items) |-> items[i].id]

\* the comprehension over key raises KeyError when an item lacks the key
HasId(items) == \A i \in 1..Len(items) : items[i].id # Missing
HasName(items) == \A i \in 1..Len(items) : items[i].name # Missing

\* a get_top_artists that keeps the ids it could read out of a malformed
\* response instead of returning []
WithId(item) == item.id # Missing
TopArtistIdsPartial(has_items, items) ==
    IF has_items THEN Ids(SelectSeq(items, WithId)) ELSE <<>>

\* a get_top_artists that returns the ids in the opposite order
TopArtistIdsReversed(has_items, items) ==
    IF has_items /\ HasId(items) /\ HasName(items)
      THEN [i \in 1..Len(items) |-> items[Len(items) + 1 - i].id]
      ELSE <<>>

\* get_top_artists, lines 69-77: what the function returns for a response
\* body (has_items: the body has the key 'items')
TopArtistIds(has_items, items) ==
    IF has_items /\ HasId(items) /\ HasName(items) THEN Ids(items) ELSE <<>>

\* main line 159, get_top_artists line 68: the top-artists call is issued
TopArtistsCall ==
    /\ pc = "get_top_artists"
    /\ calls' = Append(calls, Call("current_user_top_artists",
                         [time_range |-> TimeRange, limit |-> limit]))
    /\ pc' = "top_artists_wait"
    /\ UNCHANGED <<replies, client_id, client_secret, sp, user_id, top_artist_ids,
                   recommended_track_ids, playlist, out, playlists>>
    /\ UNCHANGED <<limit, results, recommendations>>

\* get_top_artists, lines 75-77: the call raises, the function returns []
TopArtistsRaise ==
    /\ pc = "top_artists_wait"
    /\ top_artist_ids' = <<>>
    /\ Emit("ERR_ARTISTS")
    /\ pc' = "get_recommendations"
    /\ Reply("raised")
    /\ UNCHANGED <<client_id, client_secret, sp, user_id,
                   recommended_track_ids, playlist, calls, playlists>>
    /\ UNCHANGED <<limit, results, recommendations>>

\* get_top_artists, lines 68-77: the call returns a body
TopArtistsReturn ==
    /\ pc = "top_artists_wait"
    /\ \E has_items \in BOOLEAN, items \in SeqsUpTo(ArtistItems, MaxItems) :
          /\ results' = [has |-> has_items, items |-> items]
          /\ top_artist_ids' = TopArtistIds(has_items, items)
          /\ Emit(IF has_items /\ HasId(items) /\ HasName(items)
                    THEN "ARTISTS" ELSE "ERR_ARTISTS")
          /\ Reply(IF has_items /\ HasId(items) /\ HasName(items)
                     THEN "ok" ELSE "malformed")
    /\ pc' = "get_recommendations"
    /\ UNCHANGED <<client_id, client_secret, sp, user_id,
                   recommended_track_ids, playlist, calls, playlists>>
    /\ UNCHANGED <<limit, recommendations>>

\* --------------------------------------------------- get_recommendations
\* a get_recommendations without the guard on an empty seed list
NoSeedsNever(seed_artists) == FALSE

\* "if not seed_artists"
NoSeeds(seed_artists) == seed_artists = <<>>

\* a get_recommendations that keeps the ids it could read out of a
\* malformed response instead of returning []
RecommendedIdsPartial(has_tracks, tracks) ==
    IF has_tracks THEN Ids(SelectSeq(tracks, WithId)) ELSE <<>>

\* get_recommendations, lines 89-95: what the function returns for a
\* response body (has_tracks: the body has the key 'tracks')
RecommendedIds(has_tracks, tracks) ==
    IF has_tracks /\ HasId(tracks) THEN Ids(tracks) ELSE <<>>

\* the arguments of sp.recommendations, line 89 (limit from main line 162)
RecommendationsArgs(seed_artists) ==
    [seed_artists |-> seed_artists, limit |-> RecommendationsLimit]

\* a pipeline that stops on an empty seed list instead of handing the empty
\* result on to create_playlist
GetRecommendationsAbort ==
    /\ pc = "get_recommendations"
    /\ IF NoSeeds(top_artist_ids)
         THEN /\ Emit("NO_SEEDS")
              /\ recommended_track_ids' = <<>>
              /\ pc' = "done"
              /\ UNCHANGED calls
         ELSE /\ calls' = Append(calls, Call("recommendations",
                                  RecommendationsArgs(top_artist_ids)))
              /\ pc' = "recommendations_wait"
              /\ UNCHANGED <<out, recommended_track_ids>>
    /\ UNCHANGED <<replies, client_id, client_secret, sp, user_id,
                   top_artist_ids, playlist, playlists>>
    /\ UNCHANGED <<limit, results, recommendations>>

\* main line 162, get_recommendations lines 83-89: no seeds, return [];
\* otherwise the recommendations call is issued
GetRecommendations ==
    /\ pc = "get_recommendations"
    /\ IF NoSeeds(top_artist_ids)
         THEN /\ Emit("NO_SEEDS")
              /\ recommended_track_ids' = <<>>
              /\ pc' = "create_playlist"
              /\ UNCHANGED calls
         ELSE /\ calls' = Append(calls, Call("recommendations",
                                  RecommendationsArgs(top_artist_ids)))
              /\ pc' = "recommendations_wait"
              /\ UNCHANGED <<out, recommended_track_ids>>
    /\ UNCHANGED <<replies, client_id, client_secret, sp, user_id, top_artist_ids,
                   playlist, playlists>>
    /\ UNCHANGED <<limit, results, recommendations>>

\* get_recommendations, lines 93-95: the call raises, the function returns []
RecommendationsRaise ==
    /\ pc = "recommendations_wait"
    /\ recommended_track_ids' = <<>>
    /\ Emit("ERR_RECOMMENDATIONS")
    /\ pc' = "create_playlist"
    /\ Reply("raised")
    /\ UNCHANGED <<client_id, client_secret, sp, user_id, top_artist_ids,
                   playlist, calls, playlists>>
    /\ UNCHANGED <<limit, results, recommendations>>

\* get_recommendations, lines 89-95: the call returns a body
RecommendationsReturn ==
    /\ pc = "recommendations_wait"
    /\ \E has_tracks \in BOOLEAN, tracks \in SeqsUpTo(TrackItems, MaxItems) :
          /\ recommendations' = [has |-> has_tracks, items |-> tracks]
          /\ recommended_track_ids' = RecommendedIds(has_tracks, tracks)
          /\ Emit(IF has_tracks /\ HasId(tracks)
                    THEN "RECOMMENDATIONS" ELSE "ERR_RECOMMENDATIONS")
          /\ Reply(IF has_tracks /\ HasId(tracks) THEN "ok" ELSE "malformed")
    /\ pc' = "create_playlist"
    /\ UNCHANGED <<client_id, client_secret, sp, user_id, top_artist_ids,
                   playlist, calls, playlists>>
    /\ UNCHANGED <<limit, results>>

\* ------------------------------------------------------- create_playlist
\* a create_playlist without the guard on an empty track list
NoTracksNever(track_ids) == FALSE

\* "if not track_ids"
NoTracks(track_ids) == track_ids = <<>>

\* a create call that makes the playlist public
CreateArgsPublic(user, name) ==
    [user |-> user, name |-> name, public |-> TRUE,
     description |-> PlaylistDescription]

\* the arguments of sp.user_playlist_create, lines 108-113 (the name from
\* main line 165)
CreateArgs(user, name) ==
    [user |-> user, name |-> name, public |-> FALSE,
     description |-> PlaylistDescription]

\* an add-items call that leaves out the first track
AddItemsArgsTail(playlist_id, track_ids) ==
    [playlist_id |-> playlist_id, items |-> Tail(track_ids)]

\* the arguments of sp.playlist_add_items, line 117
AddItemsArgs(playlist_id, track_ids) ==
    [playlist_id |-> playlist_id, items |-> track_ids]

\* a create_playlist without its except: the exception leaves main()
OnPublishErrorEscape(printed) ==
    /\ out' = printed
    /\ pc' = "uncaught"
    /\ UNCHANGED calls

\* a create_playlist that swallows the exception and reports success
OnPublishErrorSwallow(printed) ==
    /\ out' = printed \o <<"SUCCESS", "URL">>
    /\ pc' = "done"
    /\ UNCHANGED calls

\* an except that tries the publication again
OnPublishErrorRetry(printed) ==
    /\ out' = Append(printed, "ERR_PLAYLIST")
    /\ pc' = "create_playlist"
    /\ UNCHANGED calls

\* an except that rolls the playlist back with one more provider call
OnPublishErrorRollback(printed) ==
    /\ out' = Append(printed, "ERR_PLAYLIST")
    /\ pc' = "done"
    /\ calls' = Append(calls, Call("current_user_unfollow_playlist",
                                   [playlist_id |-> playlist.id]))

\* create_playlist, lines 124-125: the except prints the error and the
\* function returns (printed: what the try block had printed before)
OnPublishError(printed) ==
    /\ out' = Append(printed, "ERR_PLAYLIST")
    /\ pc' = "done"
    /\ UNCHANGED calls

\* a create_playlist that reports an empty track list as a publish error
CreatePlaylistSkipIsError ==
    /\ pc = "create_playlist"
    /\ IF NoTracks(recommended_track_ids)
         THEN /\ Emit("ERR_PLAYLIST")
              /\ pc' = "done"
              /\ UNCHANGED calls
         ELSE /\ calls' = Append(calls, Call("user_playlist_create",
                                  CreateArgs(user_id, PlaylistName)))
              /\ pc' = "playlist_create_wait"
              /\ UNCHANGED out
    /\ UNCHANGED <<replies, client_id, client_secret, sp, user_id,
                   top_artist_ids, recommended_track_ids, playlist, playlists>>
    /\ UNCHANGED <<limit, results, recommendations>>

\* main line 165, create_playlist lines 101-113: no tracks, return;
\* otherwise the create call is issued
CreatePlaylist ==
    /\ pc = "create_playlist"
    /\ IF NoTracks(recommended_track_ids)
         THEN /\ Emit("NO_TRACKS")
              /\ pc' = "done"
              /\ UNCHANGED calls
         ELSE /\ calls' = Append(calls, Call("user_playlist_create",
                                  CreateArgs(user_id, PlaylistName)))
              /\ pc' = "playlist_create_wait"
              /\ UNCHANGED out
    /\ UNCHANGED <<replies, client_id, client_secret, sp, user_id, top_artist_ids,
                   recommended_track_ids, playlist, playlists>>
    /\ UNCHANGED <<limit, results, recommendations>>

\* the provider operation last issued
LastCall == calls[Len(calls)]

\* create_playlist, lines 108-125: the create call raises
PlaylistCreateRaise ==
    /\ pc = "playlist_create_wait"
    /\ OnPublishError(out)
    /\ Reply("raised")
    /\ UNCHANGED <<client_id, client_secret, sp, user_id, top_artist_ids,
                   recommended_track_ids, playlist, playlists>>
    /\ UNCHANGED <<limit, results, recommendations>>

\* create_playlist, lines 108-117: the provider creates the playlist under
\* a fresh id and returns a body; playlist['id'] raises KeyError when the
\* body lacks it, otherwise the add-items call is issued
PlaylistCreateReturn ==
    /\ pc = "playlist_create_wait"
    /\ \E pid \in PlaylistIds \ DOMAIN playlists, body \in PlaylistBodies :
          /\ body.id \in {pid, Missing}
          /\ playlists' = [p \in DOMAIN playlists \cup {pid} |->
                             IF p = pid
                               THEN [owner |-> LastCall.args.user,
                                     name |-> LastCall.args.name,
                                     public |-> LastCall.args.public,
                                     items |-> <<>>]
                               ELSE playlists[p]]
          /\ playlist' = body
          /\ Reply(IF body.id = Missing \/ body.url = Missing
                     THEN "malformed" ELSE "ok")
          /\ IF body.id = Missing
               THEN OnPublishError(out)
               ELSE /\ calls' = Append(calls, Call("playlist_add_items",
                                   AddItemsArgs(body.id, recommended_track_ids)))
                    /\ pc' = "add_items_wait"
                    /\ UNCHANGED out
    /\ UNCHANGED <<client_id, client_secret, sp, user_id, top_artist_ids,
                   recommended_track_ids>>
    /\ UNCHANGED <<limit, results, recommendations>>

\* create_playlist, lines 117-125: the add-items call raises; the provider
\* may have stored any prefix of the items before failing
AddItemsRaise ==
    /\ pc = "add_items_wait"
    /\ \E k \in 0..Len(LastCall.args.items) :
          playlists' = [p \in DOMAIN playlists |->
                          IF p = LastCall.args.playlist_id
                            THEN [playlists[p] EXCEPT !.items =
                                    @ \o SubSeq(LastCall.args.items, 1, k)]
                            ELSE playlists[p]]
    /\ OnPublishError(out)
    /\ Reply("raised")
    /\ UNCHANGED <<client_id, client_secret, sp, user_id, top_artist_ids,
                   recommended_track_ids, playlist>>
    /\ UNCHANGED <<limit, results, recommendations>>

\* create_playlist, lines 117-125: the add-items call returns; success is
\* printed, then the URL, where playlist['external_urls']['spotify'] raises
\* KeyError when the create response lacks it
AddItemsReturn ==
    /\ pc = "add_items_wait"
    /\ LastCall.args.playlist_id \in DOMAIN playlists
    /\ playlists' = [playlists EXCEPT ![LastCall.args.playlist_id].items =
                        @ \o LastCall.args.items]
    /\ IF playlist.url = Missing
         THEN OnPublishError(Append(out, "SUCCESS"))
         ELSE /\ out' = out \o <<"SUCCESS", "URL">>
              /\ pc' = "done"
              /\ UNCHANGED calls
    /\ Reply("ok")
    /\ UNCHANGED <<client_id, client_secret, sp, user_id, top_artist_ids,
                   recommended_track_ids, playlist>>
    /\ UNCHANGED <<limit, results, recommendations>>

Next ==
    \/ ReadCredentials
    \/ Authenticate
    \/ CurrentUserCall
    \/ CurrentUserRaise
    \/ CurrentUserReturn
    \/ TopArtistsCall
    \/ TopArtistsRaise
    \/ TopArtistsReturn
    \/ GetRecommendations
    \/ RecommendationsRaise
    \/ RecommendationsReturn
    \/ CreatePlaylist
    \/ PlaylistCreateRaise
    \/ PlaylistCreateReturn
    \/ AddItemsRaise
    \/ AddItemsReturn

Spec == Init /\ [][Next]_vars

\* a sequential program keeps running, and every provider call returns or
\* raises
FairSpec == Spec /\ WF_vars(Next)

\* get_top_artists(sp, limit, time_range) takes any limit: the pipeline
\* with the limit of line 159 left open
AnyLimitInit == Start /\ limit \in 0..MaxLimit
AnyLimitSpec == AnyLimitInit /\ [][Next]_vars

\* ------------------------------------------- the orchestrator's states
Printed(tag) == \E i \in 1..Len(out) : out[i] = tag

\* a provider call is outstanding
Waiting ==
    pc \in {"current_user_wait", "top_artists_wait", "recommendations_wait",
            "playlist_create_wait", "add_items_wait"}

\* The state of the pipeline (Start -> Authenticated -> Identified ->
\* ArtistsFetched -> RecommendationsFetched -> Published | Skipped | Failed)
\* read off what the run has printed and, before any outcome is printed, off
\* the position of main(): an error message of authenticate_spotify, of the
\* identification or of create_playlist is Failed, the no-tracks message is
\* Skipped, the success message followed by the URL is Published.  Rejected
\* is main() refusing empty credentials, before the pipeline is entered.
state ==
    CASE Printed("ERR_EMPTY_CREDENTIALS") -> "Rejected"
      [] Printed("ERR_AUTH") \/ Printed("ERR_USER") \/ Printed("ERR_PLAYLIST")
            -> "Failed"
      [] Printed("NO_TRACKS") -> "Skipped"
      [] Printed("URL") -> "Published"
      [] OTHER ->
           CASE pc = "input" -> "Input"
             [] pc = "authenticate" -> "Start"
             [] pc \in {"current_user", "current_user_wait"} -> "Authenticated"
             [] pc \in {"get_top_artists", "top_artists_wait"} -> "Identified"
             [] pc \in {"get_recommendations", "recommendations_wait"}
                   -> "ArtistsFetched"
             [] pc \in {"create_playlist", "playlist_create_wait",
                        "add_items_wait"} -> "RecommendationsFetched"
             [] OTHER -> "Returned"

Terminal == {"Published", "Skipped", "Failed"}

\* the number of provider operations op issued so far
Count(op) == Cardinality({i \in 1..Len(calls) : calls[i].op = op})

\* the calls of create_playlist, in the order issued
IsPublishCall(c) == c.op \in {"user_playlist_create", "playlist_add_items"}
PublishCalls == SelectSeq(calls, IsPublishCall)

\* create_playlist has been entered
PublishEntered ==
    \/ pc \in {"playlist_create_wait", "add_items_wait"}
    \/ Printed("NO_TRACKS") \/ Printed("ERR_PLAYLIST") \/ Printed("SUCCESS")

\* get_recommendations has returned
RecommendationsDone == pc = "create_playlist" \/ PublishEntered

\* ----------------------------------------------------------------- claims

\* C1: the create-playlist operation is issued only if the recommendation
\* stage produced at least one track id; create_playlist entered with an
\* empty track list issues no create and no add-items call and ends the run
\* in Skipped, not in an error.
C1_CreateOnlyWithTracks ==
    /\ Count("user_playlist_create") > 0 => recommended_track_ids # <<>>
    /\ (PublishEntered /\ recommended_track_ids = <<>>) =>
          /\ Count("user_playlist_create") = 0
          /\ Count("playlist_add_items") = 0
          /\ pc = "done"
          /\ state = "Skipped"
          /\ ~Printed("ERR_PLAYLIST")

C1_Witness ==
    PublishEntered /\ recommended_track_ids = <<>> /\ state = "Skipped"

\* C2: the recommendations operation is issued only if the top-artists
\* stage produced at least one artist id; get_recommendations entered with
\* an empty seed list returns the empty list without any provider call.
C2_RecommendOnlyWithSeeds ==
    /\ Count("recommendations") > 0 => top_artist_ids # <<>>
    /\ (RecommendationsDone /\ top_artist_ids = <<>>) =>
          /\ Count("recommendations") = 0
          /\ recommended_track_ids = <<>>
          /\ Len(calls) = 2

C2_Witness ==
    RecommendationsDone /\ top_artist_ids = <<>> /\ Printed("NO_SEEDS")

\* C3: for a non-empty track list, when the provider accepts the create and
\* the add-items operation, create_playlist has issued exactly one create
\* call followed by exactly one add-items call, which targets the playlist
\* id the create call returned and carries all the track ids in their
\* order; no add-items call ever precedes the create call.
C3_CreateThenAppend ==
    /\ \A i \in 1..Len(calls) :
          calls[i].op = "playlist_add_items" =>
             \E j \in 1..(i - 1) : calls[j].op = "user_playlist_create"
    /\ Printed("SUCCESS") =>
          /\ Len(PublishCalls) = 2
          /\ PublishCalls[1].op = "user_playlist_create"
          /\ PublishCalls[2].op = "playlist_add_items"
          /\ PublishCalls[2].args.playlist_id = playlist.id
          /\ DOMAIN playlists = {playlist.id}
          /\ PublishCalls[2].args.items = recommended_track_ids
          /\ playlists[playlist.id].items = recommended_track_ids

C3_Witness ==
    /\ Printed("SUCCESS")
    /\ Len(recommended_track_ids) = 2
    /\ recommended_track_ids[1] # recommended_track_ids[2]

\* the add-items call was answered by an error after the create call had
\* returned the playlist's id
AppendFailed ==
    \E i \in 1..Len(replies) :
       replies[i] = "raised" /\ calls[i].op = "playlist_add_items"

\* C4: if the add-items call fails after the create call succeeded, the
\* publish error is reported and the run is Failed, while the created
\* playlist still exists on the provider: no rollback call and no second
\* create or add-items call is issued.
C4_NoRollback ==
    AppendFailed =>
       /\ Printed("ERR_PLAYLIST")
       /\ state = "Failed"
       /\ pc = "done"
       /\ playlist.id \in DOMAIN playlists
       /\ LastCall.op = "playlist_add_items"
       /\ Len(replies) = Len(calls)
       /\ Count("user_playlist_create") = 1
       /\ Count("playlist_add_items") = 1

C4_Witness ==
    AppendFailed /\ playlists[playlist.id].items # recommended_track_ids

\* C5: a failure of the authentication or of the identification of the
\* current user ends the run in Failed, and no top-artists, recommendations,
\* create or add-items call is issued afterwards.
C5_AuthFailureFatal ==
    /\ Printed("ERR_AUTH") =>
          pc = "done" /\ state = "Failed" /\ sp = None /\ calls = <<>>
    /\ Printed("ERR_USER") =>
          /\ pc = "done"
          /\ state = "Failed"
          /\ Len(calls) = 1
          /\ calls[1].op = "current_user"

C5_Witness == Printed("ERR_AUTH") /\ pc = "done"

\* the provider's answer to the call of op, once it has answered
Answered(op, kinds) ==
    \E i \in 1..Len(replies) : calls[i].op = op /\ replies[i] \in kinds

ArtistsFailed == Answered("current_user_top_artists", {"raised", "malformed"})
RecommendationsFailed == Answered("recommendations", {"raised", "malformed"})

C6_Degraded ==
    /\ ArtistsFailed =>
          /\ top_artist_ids = <<>>
          /\ Count("recommendations") = 0
          /\ Count("user_playlist_create") = 0
          /\ pc \in {"get_recommendations", "create_playlist", "done"}
          /\ state \notin {"Failed", "Published"}
          /\ pc = "done" => state = "Skipped" /\ Printed("NO_SEEDS")
    /\ RecommendationsFailed =>
          /\ recommended_track_ids = <<>>
          /\ Count("user_playlist_create") = 0
          /\ pc \in {"create_playlist", "done"}
          /\ state \notin {"Failed", "Published"}
          /\ pc = "done" => state = "Skipped"

\* C6: a provider error (the call raises, or its response is malformed) in
\* the top-artists fetch or in the recommendations fetch degrades to the
\* empty list and does not abort: the later stages are entered with the
\* empty list, no playlist is created, and the run ends in Skipped.
C6_FetchErrorsDegrade ==
    /\ []C6_Degraded
    /\ ArtistsFailed ~> (state = "Skipped")
    /\ RecommendationsFailed ~> (state = "Skipped")

C6_Witness == ArtistsFailed /\ state = "Skipped"

ArtistsEmpty == Answered("current_user_top_artists", {"ok"}) /\ top_artist_ids = <<>>
RecommendationsEmpty == Answered("recommendations", {"ok"}) /\ recommended_track_ids = <<>>

C7_Propagated ==
    /\ ArtistsEmpty =>
          /\ Count("recommendations") = 0
          /\ Count("user_playlist_create") = 0
          /\ state \notin {"Failed", "Published"}
    /\ RecommendationsEmpty =>
          /\ Count("user_playlist_create") = 0
          /\ state \notin {"Failed", "Published"}

\* C7: an empty but successful result is handed on: after a top-artists
\* fetch that succeeds with the empty list the recommendations operation is
\* never issued, after either fetch succeeding with the empty list no
\* playlist is created, and the run reaches Skipped, never Failed or
\* Published.
C7_EmptyPropagates ==
    /\ []C7_Propagated
    /\ ArtistsEmpty ~> (state = "Skipped")
    /\ RecommendationsEmpty ~> (state = "Skipped")

C7_Witness == ArtistsEmpty /\ state = "Skipped" /\ Len(calls) = 2

\* the run is over, every provider call returned a well-formed response and
\* both fetches yielded a non-empty list
AllSucceeded ==
    /\ pc = "done"
    /\ sp # None
    /\ Len(replies) = Len(calls)
    /\ \A i \in 1..Len(replies) : replies[i] = "ok"
    /\ top_artist_ids # <<>>
    /\ recommended_track_ids # <<>>

\* C8: when every provider call succeeds and both fetches yield non-empty
\* lists A and T, the run is Published: the recommendations request was
\* seeded with exactly A and limit 25, exactly one playlist of the fixed
\* name was created, private, for the identified user, and exactly T was
\* appended to it in order.
C8_HappyPath ==
    AllSucceeded =>
       /\ state = "Published"
       /\ user_id \in UserIds
       /\ calls = << Call("current_user", [session |-> Session]),
                     Call("current_user_top_artists",
                          [time_range |-> "medium_term", limit |-> 5]),
                     Call("recommendations",
                          [seed_artists |-> top_artist_ids, limit |-> 25]),
                     Call("user_playlist_create",
                          [user |-> user_id,
                           name |-> "Decouvertes Python (robot)",
                           public |-> FALSE,
                           description |-> PlaylistDescription]),
                     Call("playlist_add_items",
                          [playlist_id |-> playlist.id,
                           items |-> recommended_track_ids]) >>
       /\ DOMAIN playlists = {playlist.id}
       /\ playlists[playlist.id] =
             [owner |-> user_id, name |-> "Decouvertes Python (robot)",
              public |-> FALSE, items |-> recommended_track_ids]

C8_Witness ==
    AllSucceeded /\ Len(top_artist_ids) = 2 /\ Len(recommended_track_ids) = 2

\* C9 as stated: every run that has ended has reached Published, Skipped or
\* Failed.
C9_EveryRunEndsTerminal == pc = "done" => state \in Terminal

\* a step out of a terminal state issues no provider call and keeps the state
TerminalStays == state \in Terminal => (state' = state /\ calls' = calls)

\* C9, amended: every run that enters the pipeline (its credentials are
\* both non-empty) eventually reaches one of Published, Skipped and Failed,
\* a run that has ended without being rejected is in one of them, and from
\* a terminal state on no provider call is issued and the state stays.
C9_Terminates ==
    /\ (state = "Start") ~> (state \in Terminal)
    /\ [](pc = "done" /\ ~EmptyCredentials(client_id, client_secret)
            => state \in Terminal)
    /\ [][TerminalStays]_vars

C9_Witness == state = "Failed" /\ Printed("ERR_USER") /\ pc = "done"

\* C10: the create-playlist operation is issued at most once in a run, and
\* exactly once in a run that ends in Published.
C10_CreatedOnce ==
    /\ Count("user_playlist_create") <= 1
    /\ Cardinality(DOMAIN playlists) <= 1
    /\ state = "Published" =>
          Count("user_playlist_create") = 1 /\ Cardinality(DOMAIN playlists) = 1

C10_Witness == state = "Published" /\ Count("user_playlist_create") = 1

\* the place of a provider operation in the pipeline
Rank(op) ==
    CASE op = "current_user" -> 1
      [] op = "current_user_top_artists" -> 2
      [] op = "recommendations" -> 3
      [] op = "user_playlist_create" -> 4
      [] op = "playlist_add_items" -> 5
      [] OTHER -> 0

\* the provider calls issued and not answered yet
Outstanding == Len(calls) - Len(replies)

\* C11: the provider operations of a run occur only in the order
\* current-user, top-artists, recommendations, create-playlist, add-items,
\* each at most once; an operation is issued only after every earlier one
\* was answered, and no two are outstanding at the same time.
C11_Linear ==
    /\ \A i \in 1..Len(calls) : Rank(calls[i].op) > 0
    /\ \A i, j \in 1..Len(calls) :
          i < j => Rank(calls[i].op) < Rank(calls[j].op)
    /\ Outstanding \in {0, 1}
    /\ Outstanding = 1 <=> Waiting

C11_Witness == Len(calls) = 5 /\ Outstanding = 0 /\ pc = "done"

\* the positions of main(): it is at one of its statements or has returned
Positions ==
    {"input", "authenticate", "current_user", "current_user_wait",
     "get_top_artists", "top_artists_wait", "get_recommendations",
     "recommendations_wait", "create_playlist", "playlist_create_wait",
     "add_items_wait", "done"}

\* the message the stage of a provider operation prints for a failure
ErrorTag(op) ==
    CASE op = "current_user" -> "ERR_USER"
      [] op = "current_user_top_artists" -> "ERR_ARTISTS"
      [] op = "recommendations" -> "ERR_RECOMMENDATIONS"
      [] OTHER -> "ERR_PLAYLIST"

\* C12: every stage converts the failures of its provider call into its own
\* error outcome: a call that raised has its stage's error message printed,
\* so has, by the end of the run, a call answered by a malformed body, a
\* failed authentication has printed the authentication error, and main()
\* is never left by an exception.
C12_NoEscape ==
    /\ pc \in Positions
    /\ \A i \in 1..Len(replies) :
          /\ replies[i] = "raised" => Printed(ErrorTag(calls[i].op))
          /\ (replies[i] = "malformed" /\ pc = "done")
                => Printed(ErrorTag(calls[i].op))
    /\ (pc \notin {"input", "authenticate"} /\ sp = None
          /\ client_id # "" /\ client_secret # "") => Printed("ERR_AUTH")

C12_Witness ==
    /\ pc = "done"
    /\ Answered("playlist_add_items", {"raised"})
    /\ Printed("ERR_PLAYLIST")

\* the authentication was tried and gave no client
AuthFailed == pc \notin {"input", "authenticate"} /\ Printed("ERR_AUTH")

\* C13: a run is Failed only if the authentication, the identification, the
\* create call or the add-items call reported an error (it raised, or its
\* response was malformed); a finished run whose create and add-items calls
\* were both answered without error is Published.
C13_FailedOnlyOnErrors ==
    /\ state = "Failed" =>
          \/ AuthFailed /\ sp = None
          \/ Answered("current_user", {"raised", "malformed"})
          \/ Answered("user_playlist_create", {"raised", "malformed"})
          \/ Answered("playlist_add_items", {"raised", "malformed"})
    /\ (Answered("user_playlist_create", {"ok"})
          /\ Answered("playlist_add_items", {"ok"})) => state = "Published"

C13_Witness ==
    /\ state = "Failed"
    /\ Answered("user_playlist_create", {"ok"})
    /\ Answered("playlist_add_items", {"raised"})

\* no element of the sequence occurs twice
Distinct(seq) == \A i, j \in 1..Len(seq) : i # j => seq[i] # seq[j]

\* get_top_artists has returned
TopArtistsDone ==
    Answered("current_user_top_artists", {"ok", "malformed", "raised"})

\* C14 as stated: for every limit, get_top_artists returns at most limit
\* ids, none twice.
C14_AtMostLimitDistinct ==
    TopArtistsDone =>
       Len(top_artist_ids) <= limit /\ Distinct(top_artist_ids)

\* C14, amended: for every limit L >= 0, get_top_artists asks the provider
\* for L artists and returns the ids of the items of the response, all of
\* them and in the order of the response, or the empty list; the result has
\* at most L ids and no id twice whenever the response has at most L items
\* and no id twice.
C14_LimitLeftToProvider ==
    TopArtistsDone =>
       /\ \A i \in 1..Len(calls) :
             calls[i].op = "current_user_top_artists" =>
                calls[i].args.limit = limit
       /\ top_artist_ids = <<>> \/ top_artist_ids = Ids(results.items)
       /\ Answered("current_user_top_artists", {"ok"}) =>
             top_artist_ids = Ids(results.items)
       /\ (Len(results.items) <= limit /\ Distinct(Ids(results.items))) =>
             Len(top_artist_ids) <= limit /\ Distinct(top_artist_ids)

C14_Witness ==
    /\ Answered("current_user_top_artists", {"ok"})
    /\ limit = 2
    /\ Len(top_artist_ids) = 2
    /\ top_artist_ids[1] # top_artist_ids[2]

\* the authentication was attempted
AuthAttempted == Printed("AUTH_OK") \/ Printed("ERR_AUTH")

\* C15: if the client identifier or the client secret read is empty, the
\* run ends at the input check: no authentication is attempted and no
\* provider call is issued.
C15_EmptyRejected ==
    (pc # "input" /\ (client_id = "" \/ client_secret = "")) =>
       /\ pc = "done"
       /\ state = "Rejected"
       /\ ~AuthAttempted
       /\ sp = None
       /\ calls = <<>>

C15_Witness == pc = "done" /\ client_id # "" /\ client_secret = ""

\* C16: the success message and the Published outcome are reached only
\* after the create call and the add-items call have both returned without
\* raising, with the playlist populated; never when the add-items call
\* failed or was not issued.
C16_SuccessAfterPopulated ==
    /\ Printed("SUCCESS") =>
          /\ Answered("user_playlist_create", {"ok", "malformed"})
          /\ Answered("playlist_add_items", {"ok"})
          /\ playlist.id \in DOMAIN playlists
          /\ playlists[playlist.id].items = recommended_track_ids
    /\ state = "Published" =>
          /\ Printed("SUCCESS")
          /\ Answered("user_playlist_create", {"ok"})
          /\ Answered("playlist_add_items", {"ok"})
    /\ (Count("playlist_add_items") = 0
          \/ Answered("playlist_add_items", {"raised"})) =>
          state # "Published" /\ ~Printed("SUCCESS")

C16_Witness ==
    /\ state = "Published"
    /\ Len(recommended_track_ids) = 2
    /\ playlists[playlist.id].items = recommended_track_ids

\* get_recommendations has got an answer to its provider call
RecommendationsAnswered ==
    Answered("recommendations", {"ok", "malformed", "raised"})

\* C17: get_top_artists returns the ids of every item of the response, in
\* the order of the response, or the empty list (the call raised, the body
\* lacks its list, or an item lacks its id or its name), never some of the
\* ids only; get_recommendations likewise for the tracks of its response.
C17_AllOrNothing ==
    /\ TopArtistsDone =>
          /\ top_artist_ids = <<>>
                \/ (results.has /\ top_artist_ids = Ids(results.items))
          /\ Answered("current_user_top_artists", {"ok"}) =>
                results.has /\ top_artist_ids = Ids(results.items)
          /\ Answered("current_user_top_artists", {"malformed", "raised"}) =>
                top_artist_ids = <<>>
    /\ RecommendationsAnswered =>
          /\ recommended_track_ids = <<>>
                \/ (recommendations.has
                      /\ recommended_track_ids = Ids(recommendations.items))
          /\ Answered("recommendations", {"ok"}) =>
                /\ recommendations.has
                /\ recommended_track_ids = Ids(recommendations.items)
          /\ Answered("recommendations", {"malformed", "raised"}) =>
                recommended_track_ids = <<>>

C17_Witness ==
    /\ Answered("recommendations", {"malformed"})
    /\ recommendations.has
    /\ Len(recommendations.items) = 2
    /\ recommendations.items[1].id # Missing
    /\ recommended_track_ids = <<>>
====
